---- MODULE Spec2Model ----
(***************************************************************************)
(* LetterBoxedSolver (src/src/lottawords/solver.py) as a state machine.    *)
(*                                                                         *)
(* Characters are their ASCII codes, a word is a sequence of characters,   *)
(* a square is the sequence of its sides in dict order (top, right,        *)
(* bottom, left), each side the set of its characters.  One behaviour is   *)
(* one call of a public method on a fresh solver: is_valid_word,           *)
(* covers_all_letters, or find_shortest_solution, the latter stepping      *)
(* through input validation, word filtering, index building, one action    *)
(* per kind of search-loop iteration, and result assembly.                 *)
(***************************************************************************)
EXTENDS Integers, Sequences, FiniteSets, TLC

VARIABLES square, dictionary, pc, arg_word, arg_used, ret,
          playable_words, original_case, first_letter_map, search, result,
          scraping_in_progress, cache_valid, request, job

\* The variables of the solver.
solver_vars == <<square, dictionary, pc, arg_word, arg_used, ret,
                 playable_words, original_case, first_letter_map, search, result>>

\* The variables of the service around it (app.py).
service_vars == <<scraping_in_progress, cache_valid, request, job>>

vars == <<solver_vars, service_vars>>

(***************************************************************************)
(* Characters and strings                                                  *)
(***************************************************************************)

\* ASCII codes of the characters the inputs are written with.
Ord == [a |-> 97, b |-> 98, c |-> 99, d |-> 100, e |-> 101, f |-> 102,
        g |-> 103, h |-> 104, i |-> 105, j |-> 106, k |-> 107, l |-> 108,
        x |-> 120,
        A |-> 65, B |-> 66, C |-> 67, D |-> 68]

\* The string spelled by a sequence of character names: W(<<"a","b">>) is "ab".
W(names) == [n \in 1..Len(names) |-> Ord[names[n]]]

\* The set of characters named.
Chars(names) == {Ord[names[n]] : n \in 1..Len(names)}

\* str.lower() of one character: 'A'..'Z' map to 'a'..'z', the rest are kept.
LowerChar(ch) == IF ch \in 65..90 THEN ch + 32 ELSE ch

\* str.lower() of a string.
Lower(word) == [n \in 1..Len(word) |-> LowerChar(word[n])]

\* set(word): the distinct characters of a string.
SetOf(word) == {word[n] : n \in 1..Len(word)}

\* {letter.lower() for letter in letters}
LowerSet(letters) == {LowerChar(ch) : ch \in letters}

\* _normalize_square: every side as the set of its lowercased letters.
normalize_square(sq) == [s \in 1..Len(sq) |-> LowerSet(sq[s])]

\* The union of the lowercased letters of all sides.
AllLetters(sq) == UNION {LowerSet(sq[s]) : s \in 1..Len(sq)}

\* letter_sides of is_valid_word: the sides are visited in dict order and
\* each assignment overwrites, so a letter is mapped to the last side holding it.
letter_sides(nsq, letter) ==
    CHOOSE s \in 1..Len(nsq) :
        /\ letter \in nsq[s]
        /\ \A t \in 1..Len(nsq) : letter \in nsq[t] => t <= s

\* is_valid_word with the consecutive-letter check left out.
is_valid_word_any_sides(word, sq) ==
    /\ word # <<>>
    /\ \A n \in 1..Len(word) : LowerChar(word[n]) \in AllLetters(sq)

\* is_valid_word(word, square)
is_valid_word(word, sq) ==
    IF word = <<>> THEN FALSE
    ELSE LET w == Lower(word)
             normalized_square == normalize_square(sq)
             all_letters == UNION {normalized_square[s] : s \in 1..Len(sq)}
         IN  IF \E n \in 1..Len(w) : w[n] \notin all_letters THEN FALSE
             ELSE \A n \in 2..Len(w) :
                      letter_sides(normalized_square, w[n-1])
                          # letter_sides(normalized_square, w[n])

\* covers_all_letters that compares used_letters without lowercasing them.
covers_all_letters_case_sensitive(used_letters, sq) ==
    AllLetters(sq) \ used_letters = {}

\* covers_all_letters(used_letters, square)
covers_all_letters(used_letters, sq) ==
    LET used == LowerSet(used_letters)
        all_letters == AllLetters(sq)
        missing_letters == all_letters \ used
    IN  missing_letters = {}

(***************************************************************************)
(* Sorting: list.sort / sorted are stable and order by a key tuple         *)
(***************************************************************************)

\* Python's order on two-element key tuples.
KeyLess(p, q) == p[1] < q[1] \/ (p[1] = q[1] /\ p[2] < q[2])

\* The stable sort of a sequence of [key, val] records by key: an element
\* comes after the elements of smaller key and after the earlier elements of
\* equal key.  (The list is bound once, as v, before it is read: the form
\* CHOOSE r \in {F(v) : v \in {x}} : TRUE is F of the value of x.)
SortByKey(items) ==
    LET Sorted(s) ==
            LET Before(i) ==
                    {j \in 1..Len(s) :
                        \/ KeyLess(s[j].key, s[i].key)
                        \/ (j < i /\ ~KeyLess(s[i].key, s[j].key))}
            IN  [p \in 1..Len(s) |->
                    s[CHOOSE i \in 1..Len(s) : Cardinality(Before(i)) = p - 1]]
    IN  CHOOSE r \in {Sorted(v) : v \in {items}} : TRUE

\* The values of a sequence of [key, val] records.
Vals(items) ==
    LET Values(s) == [n \in 1..Len(s) |-> s[n].val]
    IN  CHOOSE r \in {Values(v) : v \in {items}} : TRUE

(***************************************************************************)
(* find_shortest_solution: constants and pure steps                        *)
(***************************************************************************)

max_solution_length == 5
max_iterations == 100000
\* float('inf'), the length recorded while no solution is known.
INF == 1000000000
\* branch_limit = 25 if len(current_words) == 1 else 15
branch_limit_first == 25
branch_limit_rest == 15

\* The dictionary argument: None, a list, or a sequence that is not a list.
NoneDict == [kind |-> "None", items |-> <<>>]
ListDict(items) == [kind |-> "list", items |-> items]
TupleDict(items) == [kind |-> "tuple", items |-> items]

\* Input validation that forgets the isinstance(dictionary, list) test.
RejectsDictionary_any_sequence(dict) ==
    dict.kind = "None" \/ dict.items = <<>>

\* `not dictionary or not isinstance(dictionary, list)`
RejectsDictionary(dict) ==
    \/ dict.kind = "None" \/ dict.items = <<>>
    \/ dict.kind # "list"

\* The key of the playable word sort: (len(w), -len(set(w))).
PlayableKey(w) == <<Len(w), 0 - Cardinality(SetOf(w))>>

\* The filter loop with setdefault semantics: keeps the casing seen first.
RememberCase_first(oc, word_lower, word) ==
    IF word_lower \in DOMAIN oc THEN oc ELSE (word_lower :> word) @@ oc

\* original_case[word_lower] = word
RememberCase(oc, word_lower, word) ==
    (word_lower :> word) @@ oc

\* playable_words.append(word_lower)
AppendPlayable(pw, word_lower) == Append(pw, word_lower)

RECURSIVE FilterLoop(_, _, _, _)
\* The loop over word_source: [playable_words, original_case] after the
\* words from position n on have been handled.
FilterLoop(word_source, n, sq, acc) ==
    LET Rest(at) ==
            LET m == at[1]
                so_far == at[2]
                word == word_source[m]
                word_lower == Lower(word)
            IN  IF m > Len(word_source) THEN so_far
                ELSE IF word = <<>> THEN FilterLoop(word_source, m + 1, sq, so_far)
                ELSE IF is_valid_word(word_lower, normalize_square(sq))
                     THEN FilterLoop(word_source, m + 1, sq,
                              [playable_words |-> AppendPlayable(so_far.playable_words, word_lower),
                               original_case |-> RememberCase(so_far.original_case, word_lower, word)])
                     ELSE FilterLoop(word_source, m + 1, sq, so_far)
    IN  CHOOSE r \in {Rest(v) : v \in {<<n, acc>>}} : TRUE

\* The playable words and their remembered casing for a word source.
FilterWords(word_source, sq) ==
    FilterLoop(word_source, 1, sq,
               [playable_words |-> <<>>, original_case |-> [w \in {} |-> w]])

\* The playable words left in dictionary order.
SortPlayable_unsorted(pw) == pw

\* playable_words.sort(key=lambda w: (len(w), -len(set(w))))
SortPlayable(pw) ==
    Vals(SortByKey([n \in 1..Len(pw) |-> [key |-> PlayableKey(pw[n]), val |-> pw[n]]]))

\* first_letter_map: for each first letter, the playable words starting with
\* it, in the order of the sorted list.
BuildFirstLetterMap(pw) ==
    [ch \in {pw[n][1] : n \in 1..Len(pw)} |->
        SelectSeq(pw, LAMBDA w : w[1] = ch)]

\* unique_letters_map[word]
unique_letters_map(word) == SetOf(word)

\* all_puzzle_letters
all_puzzle_letters(sq) == AllLetters(sq)

\* The frontier seeded with one single-word sequence per playable word, and
\* the other locals of the search as they are before the loop.
InitialSearch(pw) ==
    [queue |-> [n \in 1..Len(pw) |->
                   [words |-> <<pw[n]>>, letters |-> unique_letters_map(pw[n])]],
     visited |-> {},
     min_solution |-> <<>>,
     min_solution_len |-> INF,
     search_iterations |-> 0,
     stopped |-> FALSE]

\* The search locals before find_shortest_solution reaches the search.
NoSearch == InitialSearch(<<>>)

\* A loop condition that does not see the break after a short solution.
LoopCondition_no_break(s) ==
    /\ s.queue # <<>>
    /\ s.search_iterations < max_iterations

\* while queue and search_iterations < max_iterations (and no break taken)
LoopCondition(s) ==
    /\ ~s.stopped
    /\ s.queue # <<>>
    /\ s.search_iterations < max_iterations

\* The visited key of a frontier entry.
StateKey(entry) == <<entry.words, entry.letters>>

\* The loop body without the max_solution_length test.
IterationKind_no_max_length(s, sq) ==
    LET current == Head(s.queue)
    IN  IF s.min_solution # <<>> /\ Len(current.words) >= s.min_solution_len
        THEN "shorter_known"
        ELSE IF StateKey(current) \in s.visited THEN "visited"
        ELSE IF all_puzzle_letters(sq) \subseteq current.letters THEN "covering"
        ELSE "expand"

\* The loop body skipping only sequences strictly longer than the solution.
IterationKind_strictly_longer(s, sq) ==
    LET current == Head(s.queue)
    IN  IF s.min_solution # <<>> /\ Len(current.words) > s.min_solution_len
        THEN "shorter_known"
        ELSE IF StateKey(current) \in s.visited THEN "visited"
        ELSE IF all_puzzle_letters(sq) \subseteq current.letters THEN "covering"
        ELSE IF Len(current.words) >= max_solution_length THEN "max_length"
        ELSE "expand"

\* Which branch of the loop body the entry at the head of the queue takes.
IterationKind(s, sq) ==
    LET current == Head(s.queue)
    IN  IF s.min_solution # <<>> /\ Len(current.words) >= s.min_solution_len
        THEN "shorter_known"
        ELSE IF StateKey(current) \in s.visited THEN "visited"
        ELSE IF all_puzzle_letters(sq) \subseteq current.letters THEN "covering"
        ELSE IF Len(current.words) >= max_solution_length THEN "max_length"
        ELSE "expand"

\* branch_limit with the two limits exchanged.
branch_limit_exchanged(current_words) ==
    IF Len(current_words) = 1 THEN branch_limit_rest ELSE branch_limit_first

\* branch_limit
branch_limit(current_words) ==
    IF Len(current_words) = 1 THEN branch_limit_first ELSE branch_limit_rest

\* The key of the candidate sort: (-new letters, len(word)).
PriorityKey(word, used_letters) ==
    <<0 - Cardinality(unique_letters_map(word) \ used_letters), Len(word)>>

\* prioritized_words, sorted.
Prioritized(next_words, used_letters) ==
    Vals(SortByKey([n \in 1..Len(next_words) |->
            [key |-> PriorityKey(next_words[n], used_letters), val |-> next_words[n]]]))

\* Successors that chain on the first letter of the last word.
Successors_first_of_last(entry, flm) ==
    LET last_word == entry.words[Len(entry.words)]
        last_letter == last_word[1]
        next_words == IF last_letter \in DOMAIN flm THEN flm[last_letter] ELSE <<>>
        limit == branch_limit(entry.words)
        Appended(prioritized_words) ==
            LET kept == SubSeq(prioritized_words, 1,
                               IF Len(prioritized_words) < limit
                               THEN Len(prioritized_words) ELSE limit)
            IN  [n \in 1..Len(kept) |->
                    [words |-> Append(entry.words, kept[n]),
                     letters |-> entry.letters \cup unique_letters_map(kept[n])]]
    IN  CHOOSE r \in {Appended(v) : v \in {Prioritized(next_words, entry.letters)}} : TRUE

\* The entries appended to the queue when `entry` is expanded.
Successors(entry, flm) ==
    LET last_word == entry.words[Len(entry.words)]
        last_letter == last_word[Len(last_word)]
        next_words == IF last_letter \in DOMAIN flm THEN flm[last_letter] ELSE <<>>
        limit == branch_limit(entry.words)
        Appended(prioritized_words) ==
            LET kept == SubSeq(prioritized_words, 1,
                               IF Len(prioritized_words) < limit
                               THEN Len(prioritized_words) ELSE limit)
            IN  [n \in 1..Len(kept) |->
                    [words |-> Append(entry.words, kept[n]),
                     letters |-> entry.letters \cup unique_letters_map(kept[n])]]
    IN  CHOOSE r \in {Appended(v) : v \in {Prioritized(next_words, entry.letters)}} : TRUE

\* A loop body that counts an iteration only after the two skip tests.
Iterate_skips_uncounted(s, sq, flm) ==
    LET current == Head(s.queue)
        dequeued == [s EXCEPT !.queue = Tail(s.queue)]
        popped == [dequeued EXCEPT !.search_iterations = s.search_iterations + 1]
        kind == IterationKind(s, sq)
        marked == [popped EXCEPT !.visited = popped.visited \cup {StateKey(current)}]
    IN  CASE kind = "shorter_known" -> dequeued
          [] kind = "visited" -> dequeued
          [] kind = "covering" ->
                IF covers_all_letters(current.letters, sq)
                THEN [marked EXCEPT !.min_solution = current.words,
                                    !.min_solution_len = Len(current.words),
                                    !.stopped = (Len(current.words) <= 2)]
                ELSE marked
          [] kind = "max_length" -> marked
          [] kind = "expand" ->
                [marked EXCEPT !.queue = marked.queue \o Successors(current, flm)]

\* One iteration of the while loop.
Iterate(s, sq, flm) ==
    LET current == Head(s.queue)
        popped == [s EXCEPT !.queue = Tail(s.queue),
                            !.search_iterations = s.search_iterations + 1]
        kind == IterationKind(s, sq)
        marked == [popped EXCEPT !.visited = popped.visited \cup {StateKey(current)}]
    IN  CASE kind = "shorter_known" -> popped
          [] kind = "visited" -> popped
          [] kind = "covering" ->
                IF covers_all_letters(current.letters, sq)
                THEN [marked EXCEPT !.min_solution = current.words,
                                    !.min_solution_len = Len(current.words),
                                    !.stopped = (Len(current.words) <= 2)]
                ELSE marked
          [] kind = "max_length" -> marked
          [] kind = "expand" ->
                [marked EXCEPT !.queue = marked.queue \o Successors(current, flm)]

RECURSIVE RunSearch(_, _, _)
\* The while loop run to its end.
RunSearch(s, sq, flm) ==
    IF LoopCondition(s) THEN RunSearch(Iterate(s, sq, flm), sq, flm) ELSE s

\* The key of the fallback sort: (square letters covered, -len(w)).
FallbackKey(w, sq) ==
    <<Cardinality(SetOf(w) \cap all_puzzle_letters(sq)), 0 - Len(w)>>

\* best_words
BestWords(pw, sq) ==
    Vals(SortByKey([n \in 1..Len(pw) |-> [key |-> FallbackKey(pw[n], sq), val |-> pw[n]]]))

\* Result assembly that returns the lowercase words of the solution.
AssembleResult_lowercase(min_solution, pw, oc, sq) ==
    IF min_solution # <<>> THEN min_solution
    ELSE IF pw # <<>> THEN <<BestWords(pw, sq)[Len(pw)]>>
    ELSE <<>>

\* Result assembly whose fallback takes the first word of best_words.
AssembleResult_first_best(min_solution, pw, oc, sq) ==
    IF min_solution # <<>>
    THEN [n \in 1..Len(min_solution) |-> oc[min_solution[n]]]
    ELSE IF pw # <<>> THEN <<oc[BestWords(pw, sq)[1]]>>
    ELSE <<>>

\* The result built after the loop: the solution in original casing, else
\* the last word of best_words, else nothing.
AssembleResult(min_solution, pw, oc, sq) ==
    IF min_solution # <<>>
    THEN [n \in 1..Len(min_solution) |-> oc[min_solution[n]]]
    ELSE IF pw # <<>>
         THEN LET best_word == BestWords(pw, sq)[Len(pw)]
              IN  <<IF best_word \in DOMAIN oc THEN oc[best_word] ELSE best_word>>
         ELSE <<>>

\* find_shortest_solution(square, dictionary) as a function of its arguments.
find_shortest_solution(sq, dict) ==
    IF RejectsDictionary(dict) THEN <<>>
    ELSE LET filtered == FilterWords(dict.items, sq)
         IN  IF filtered.playable_words = <<>> THEN <<>>
             ELSE LET pw == SortPlayable(filtered.playable_words)
                      flm == BuildFirstLetterMap(pw)
                      final == RunSearch(InitialSearch(pw), sq, flm)
                  IN  AssembleResult(final.min_solution, pw, filtered.original_case, sq)

(***************************************************************************)
(* Inputs                                                                  *)
(***************************************************************************)

\* Longest dictionary enumerated from WordPool.
MaxDictLen == 3
\* Longest word passed to is_valid_word.
MaxWordLen == 3

\* Four sides of one letter each.
SquareSingles == <<Chars(<<"a">>), Chars(<<"b">>), Chars(<<"c">>), Chars(<<"d">>)>>
\* The same square written with capital letters on two sides.
SquareCapitals == <<Chars(<<"A">>), Chars(<<"b">>), Chars(<<"C">>), Chars(<<"d">>)>>
\* A square with the letter b on two sides.
SquareShared == <<Chars(<<"a", "b">>), Chars(<<"b">>), Chars(<<"c">>), Chars(<<"d">>)>>
\* A full square: four sides of three letters.
SquareFull == <<Chars(<<"a", "b", "c">>), Chars(<<"d", "e", "f">>),
                Chars(<<"g", "h", "i">>), Chars(<<"j", "k", "l">>)>>

Squares == {SquareSingles, SquareCapitals, SquareShared, SquareFull}

\* The words the enumerated dictionaries are made of.
WordPool == {<<>>, W(<<"a","b">>), W(<<"A","b">>), W(<<"a","b","a">>),
             W(<<"b","c">>), W(<<"c","d">>), W(<<"b","c","d">>)}

\* All sequences over S of length at most n.
RECURSIVE SeqsUpTo(_, _)
SeqsUpTo(S, n) ==
    IF n = 0 THEN {<<>>}
    ELSE LET shorter == SeqsUpTo(S, n - 1)
         IN  shorter \cup {Append(s, e) : s \in shorter, e \in S}

\* A dictionary for SquareFull whose only covering chain, adgjbehk-kc-cfil,
\* needs kc, which 25 other words starting with k outrank after adgjbehk.
CrowdedDictionary ==
    <<W(<<"a","d","g","j","b","e","h","k">>), W(<<"k","c","f">>), W(<<"k","c","i">>),
       W(<<"k","c","l">>), W(<<"k","f","i">>), W(<<"k","f","l">>),
       W(<<"k","i","f">>), W(<<"k","i","l">>), W(<<"k","c","f","i">>),
       W(<<"k","c","f","l">>), W(<<"k","c","i","f">>), W(<<"k","c","i","l">>),
       W(<<"k","f","i","f">>), W(<<"k","f","i","l">>), W(<<"k","f","c","f">>),
       W(<<"k","f","c","i">>), W(<<"k","f","c","l">>), W(<<"k","i","f","i">>),
       W(<<"k","i","f","l">>), W(<<"k","i","c","f">>), W(<<"k","i","c","i">>),
       W(<<"k","i","c","l">>), W(<<"k","c","f","g">>), W(<<"k","c","i","e">>),
       W(<<"k","f","c","d">>), W(<<"k","f","i","e">>), W(<<"k","c">>),
       W(<<"c","f","i","l">>)>>

\* A dictionary for SquareSingles with a three-word solution and a second
\* three-word sequence behind it in the queue.
ThreeWordDictionary ==
    <<W(<<"a","b">>), W(<<"b","c">>), W(<<"c","d">>), W(<<"b","a">>)>>

\* A dictionary whose single word covers SquareSingles.
OneWordDictionary == <<W(<<"a","b","c","d">>)>>

\* A dictionary with two two-word solutions for SquareSingles, ab-bcd and
\* abcb-bcd, and three different sort keys.
TwoSolutionsDictionary ==
    <<W(<<"a","b","c","b">>), W(<<"a","b">>), W(<<"b","c","d">>)>>

\* A dictionary with two three-word solutions for SquareSingles, ab-bc-cd
\* and ab-bc-cdc, and no shorter one.
TwoThreeWordSolutionsDictionary ==
    <<W(<<"a","b">>), W(<<"b","c">>), W(<<"c","d">>), W(<<"c","d","c">>)>>

\* CrowdedDictionary with ka in front: the two-word sequence ka-adgjbehk is
\* expanded into the 27 words starting with k.
DeepCrowdedDictionary == <<W(<<"k","a">>)>> \o CrowdedDictionary

Dictionaries ==
    {ListDict(items) : items \in SeqsUpTo(WordPool, MaxDictLen)}
    \cup {ListDict(CrowdedDictionary), ListDict(ThreeWordDictionary),
          ListDict(OneWordDictionary), ListDict(TwoSolutionsDictionary),
          ListDict(TwoThreeWordSolutionsDictionary), ListDict(DeepCrowdedDictionary)}
    \cup {NoneDict, TupleDict(<<>>), TupleDict(<<W(<<"a","b">>)>>)}

\* The characters the words passed to is_valid_word are written with.
CallAlphabet == Chars(<<"a", "b", "c", "A", "x">>)
CallWords == SeqsUpTo(CallAlphabet, MaxWordLen)

\* The used_letters passed to covers_all_letters.
CallUsed ==
    {S \cup T : S \in SUBSET Chars(<<"a", "b", "c", "d", "A", "C", "x">>),
                T \in {{}, Chars(<<"e", "f", "g", "h", "i", "j", "k", "l">>)}}

(***************************************************************************)
(* The service around the solver (app.py): what it keeps between requests  *)
(***************************************************************************)

\* Request threads serving /api/puzzle at the same time.
NumRequests == 2
Requests == 1..NumRequests

\* The global scraping_in_progress before any request has assigned it: the
\* module never binds the name, get_puzzle_data does on its first run.
Unbound == "unbound"
\* Its values once bound.
FlagFalse == "False"
FlagTrue == "True"

\* The service after import, with a valid cache and nothing running.
ServiceAtRest ==
    /\ scraping_in_progress = Unbound
    /\ cache_valid = TRUE
    /\ request = [r \in Requests |-> "idle"]
    /\ job = "idle"

(***************************************************************************)
(* The state machine                                                       *)
(***************************************************************************)

NoWord == <<>>
EmptyCase == [w \in {} |-> w]

Init ==
    /\ square \in Squares
    /\ dictionary = NoneDict
    /\ pc = "start"
    /\ arg_word = NoWord
    /\ arg_used = {}
    /\ ret = FALSE
    /\ playable_words = <<>>
    /\ original_case = EmptyCase
    /\ first_letter_map = EmptyCase
    /\ search = NoSearch
    /\ result = <<>>
    /\ ServiceAtRest

\* A call of is_valid_word(word, square).
CallIsValidWord ==
    /\ pc = "start"
    /\ \E word \in CallWords :
          /\ arg_word' = word
          /\ ret' = is_valid_word(word, square)
    /\ pc' = "valid_returned"
    /\ UNCHANGED <<square, dictionary, arg_used, playable_words, original_case,
                   first_letter_map, search, result>>
    /\ UNCHANGED service_vars

\* A call of covers_all_letters(used_letters, square).
CallCoversAllLetters ==
    /\ pc = "start"
    /\ \E used \in CallUsed :
          /\ arg_used' = used
          /\ ret' = covers_all_letters(used, square)
    /\ pc' = "covers_returned"
    /\ UNCHANGED <<square, dictionary, arg_word, playable_words, original_case,
                   first_letter_map, search, result>>
    /\ UNCHANGED service_vars

\* find_shortest_solution is called with a dictionary it returns [] for at once.
EnterRejected ==
    /\ pc = "start"
    /\ \E dict \in Dictionaries :
          /\ RejectsDictionary(dict)
          /\ dictionary' = dict
    /\ result' = <<>>
    /\ pc' = "done"
    /\ UNCHANGED <<square, arg_word, arg_used, ret, playable_words, original_case,
                   first_letter_map, search>>
    /\ UNCHANGED service_vars

\* find_shortest_solution is called with a non-empty list.
EnterAccepted ==
    /\ pc = "start"
    /\ \E dict \in Dictionaries :
          /\ ~RejectsDictionary(dict)
          /\ dictionary' = dict
    /\ pc' = "filter"
    /\ UNCHANGED <<square, arg_word, arg_used, ret, playable_words, original_case,
                   first_letter_map, search, result>>
    /\ UNCHANGED service_vars

\* The filter loop; with no playable word the call returns [].
Filter ==
    /\ pc = "filter"
    /\ \E filtered \in {FilterWords(dictionary.items, square)} :
           /\ playable_words' = filtered.playable_words
           /\ original_case' = filtered.original_case
           /\ IF filtered.playable_words = <<>>
              THEN result' = <<>> /\ pc' = "done"
              ELSE result' = result /\ pc' = "index"
    /\ UNCHANGED <<square, dictionary, arg_word, arg_used, ret, first_letter_map, search>>
    /\ UNCHANGED service_vars

\* The sort of the playable words, the lookup maps and the seeded queue.
BuildIndex ==
    /\ pc = "index"
    /\ \E pw \in {SortPlayable(playable_words)} :
           /\ playable_words' = pw
           /\ first_letter_map' = BuildFirstLetterMap(pw)
           /\ search' = InitialSearch(pw)
    /\ pc' = "search"
    /\ UNCHANGED <<square, dictionary, arg_word, arg_used, ret, original_case, result>>
    /\ UNCHANGED service_vars

\* What a loop iteration leaves alone.
loop_frame == <<square, dictionary, pc, arg_word, arg_used, ret, playable_words,
                original_case, first_letter_map, result, service_vars>>

\* The dequeued sequence is no shorter than the solution already recorded.
SkipShorterKnown ==
    /\ pc = "search"
    /\ LoopCondition(search)
    /\ IterationKind(search, square) = "shorter_known"
    /\ search' = Iterate(search, square, first_letter_map)
    /\ UNCHANGED loop_frame

\* The dequeued sequence was visited before.
SkipVisited ==
    /\ pc = "search"
    /\ LoopCondition(search)
    /\ IterationKind(search, square) = "visited"
    /\ search' = Iterate(search, square, first_letter_map)
    /\ UNCHANGED loop_frame

\* The dequeued sequence covers the square: it is recorded, and a solution of
\* one or two words ends the loop.
RecordSolution ==
    /\ pc = "search"
    /\ LoopCondition(search)
    /\ IterationKind(search, square) = "covering"
    /\ search' = Iterate(search, square, first_letter_map)
    /\ UNCHANGED loop_frame

\* The dequeued sequence has max_solution_length words and is not expanded.
ReachMaxLength ==
    /\ pc = "search"
    /\ LoopCondition(search)
    /\ IterationKind(search, square) = "max_length"
    /\ search' = Iterate(search, square, first_letter_map)
    /\ UNCHANGED loop_frame

\* The dequeued sequence is expanded: its successors join the queue.
Expand ==
    /\ pc = "search"
    /\ LoopCondition(search)
    /\ IterationKind(search, square) = "expand"
    /\ search' = Iterate(search, square, first_letter_map)
    /\ UNCHANGED loop_frame

\* The loop ends: the queue is empty, the budget is spent, or break was taken.
LeaveLoop ==
    /\ pc = "search"
    /\ ~LoopCondition(search)
    /\ pc' = "assemble"
    /\ UNCHANGED <<square, dictionary, arg_word, arg_used, ret, playable_words,
                   original_case, first_letter_map, search, result>>
    /\ UNCHANGED service_vars

\* The result is assembled and returned.
Assemble ==
    /\ pc = "assemble"
    /\ result' = AssembleResult(search.min_solution, playable_words, original_case, square)
    /\ pc' = "done"
    /\ UNCHANGED <<square, dictionary, arg_word, arg_used, ret, playable_words,
                   original_case, first_letter_map, search>>
    /\ UNCHANGED service_vars

Next ==
    \/ CallIsValidWord
    \/ CallCoversAllLetters
    \/ EnterRejected
    \/ EnterAccepted
    \/ Filter
    \/ BuildIndex
    \/ SkipShorterKnown
    \/ SkipVisited
    \/ RecordSolution
    \/ ReachMaxLength
    \/ Expand
    \/ LeaveLoop
    \/ Assemble

Spec == Init /\ [][Next]_vars

(***************************************************************************)
(* The service: /api/puzzle requests and the scheduled job                 *)
(***************************************************************************)

\* The solver between calls.
SolverAtRest ==
    /\ square = SquareSingles
    /\ dictionary = NoneDict
    /\ pc = "start"
    /\ arg_word = NoWord
    /\ arg_used = {}
    /\ ret = FALSE
    /\ playable_words = <<>>
    /\ original_case = EmptyCase
    /\ first_letter_map = EmptyCase
    /\ search = NoSearch
    /\ result = <<>>

\* The service after import: the scheduler is started, and the fetch on
\* startup has left a valid cache or, having failed, none.
InitService ==
    /\ SolverAtRest
    /\ scraping_in_progress = Unbound
    /\ cache_valid \in BOOLEAN
    /\ request = [r \in Requests |-> "idle"]
    /\ job = "idle"

\* Thread r moves to `to`.
Goto(r, to) == request' = [request EXCEPT ![r] = to]

\* A request for /api/puzzle arrives: get_puzzle_data starts on thread r.
get_puzzle_data(r) ==
    /\ request[r] = "idle"
    /\ Goto(r, "test_bound")
    /\ UNCHANGED <<scraping_in_progress, cache_valid, job, solver_vars>>

\* if 'scraping_in_progress' not in globals():
TestBound(r) ==
    /\ request[r] = "test_bound"
    /\ Goto(r, IF scraping_in_progress = Unbound THEN "bind" ELSE "test_cache")
    /\ UNCHANGED <<scraping_in_progress, cache_valid, job, solver_vars>>

\* scraping_in_progress = False
BindFlag(r) ==
    /\ request[r] = "bind"
    /\ scraping_in_progress' = FlagFalse
    /\ Goto(r, "test_cache")
    /\ UNCHANGED <<cache_valid, job, solver_vars>>

\* if is_cache_valid(): return the cached data
ReturnCached(r) ==
    /\ request[r] = "test_cache"
    /\ cache_valid
    /\ Goto(r, "idle")
    /\ UNCHANGED <<scraping_in_progress, cache_valid, job, solver_vars>>

\* is_cache_valid() is false: go on to the flag.
CacheInvalid(r) ==
    /\ request[r] = "test_cache"
    /\ ~cache_valid
    /\ Goto(r, "test_flag")
    /\ UNCHANGED <<scraping_in_progress, cache_valid, job, solver_vars>>

\* if scraping_in_progress: return {'status': 'loading'}
ReturnLoading(r) ==
    /\ request[r] = "test_flag"
    /\ scraping_in_progress = FlagTrue
    /\ Goto(r, "idle")
    /\ UNCHANGED <<scraping_in_progress, cache_valid, job, solver_vars>>

\* The flag is not set: go on to set it.
FlagClear(r) ==
    /\ request[r] = "test_flag"
    /\ scraping_in_progress # FlagTrue
    /\ Goto(r, "set_flag")
    /\ UNCHANGED <<scraping_in_progress, cache_valid, job, solver_vars>>

\* scraping_in_progress = True
SetFlag(r) ==
    /\ request[r] = "set_flag"
    /\ scraping_in_progress' = FlagTrue
    /\ Goto(r, "call_fetch")
    /\ UNCHANGED <<cache_valid, job, solver_vars>>

\* result = fetch_puzzle_data(): the call begins.
RequestFetchBegins(r) ==
    /\ request[r] = "call_fetch"
    /\ Goto(r, "fetching")
    /\ UNCHANGED <<scraping_in_progress, cache_valid, job, solver_vars>>

\* fetch_puzzle_data scraped and solved: save_cache_data, then return.
RequestFetchSaves(r) ==
    /\ request[r] = "fetching"
    /\ cache_valid' = TRUE
    /\ Goto(r, "finally")
    /\ UNCHANGED <<scraping_in_progress, job, solver_vars>>

\* fetch_puzzle_data returns an error and saves nothing.
RequestFetchFails(r) ==
    /\ request[r] = "fetching"
    /\ Goto(r, "finally")
    /\ UNCHANGED <<scraping_in_progress, cache_valid, job, solver_vars>>

\* finally: scraping_in_progress = False
ClearFlag(r) ==
    /\ request[r] = "finally"
    /\ scraping_in_progress' = FlagFalse
    /\ Goto(r, "idle")
    /\ UNCHANGED <<cache_valid, job, solver_vars>>

\* The scheduler runs its job at 3:05: fetch_puzzle_data itself, on a thread
\* of the scheduler, one run at a time.
JobFetchBegins ==
    /\ job = "idle"
    /\ job' = "fetching"
    /\ UNCHANGED <<scraping_in_progress, cache_valid, request, solver_vars>>

\* The job's fetch_puzzle_data saves the cache and returns.
JobFetchSaves ==
    /\ job = "fetching"
    /\ cache_valid' = TRUE
    /\ job' = "idle"
    /\ UNCHANGED <<scraping_in_progress, request, solver_vars>>

\* The job's fetch_puzzle_data returns an error and saves nothing.
JobFetchFails ==
    /\ job = "fetching"
    /\ job' = "idle"
    /\ UNCHANGED <<scraping_in_progress, cache_valid, request, solver_vars>>

\* The clock passes the 3:05 cutoff: is_cache_valid() turns false.
CacheExpires ==
    /\ cache_valid
    /\ cache_valid' = FALSE
    /\ UNCHANGED <<scraping_in_progress, request, job, solver_vars>>

NextService ==
    \/ \E r \in Requests : get_puzzle_data(r)
    \/ \E r \in Requests : TestBound(r)
    \/ \E r \in Requests : BindFlag(r)
    \/ \E r \in Requests : ReturnCached(r)
    \/ \E r \in Requests : CacheInvalid(r)
    \/ \E r \in Requests : ReturnLoading(r)
    \/ \E r \in Requests : FlagClear(r)
    \/ \E r \in Requests : SetFlag(r)
    \/ \E r \in Requests : RequestFetchBegins(r)
    \/ \E r \in Requests : RequestFetchSaves(r)
    \/ \E r \in Requests : RequestFetchFails(r)
    \/ \E r \in Requests : ClearFlag(r)
    \/ JobFetchBegins
    \/ JobFetchSaves
    \/ JobFetchFails
    \/ CacheExpires

SpecService == InitService /\ [][NextService]_vars

(***************************************************************************)
(* Vocabulary of the properties                                            *)
(***************************************************************************)

\* The lowercase forms of a sequence of words.
LowerAll(ws) == [n \in 1..Len(ws) |-> Lower(ws[n])]

\* The set of letters of a sequence of words.
LettersOf(ws) == UNION {SetOf(ws[n]) : n \in 1..Len(ws)}

\* No letter, compared in lowercase, is on two sides.
NoLetterOnTwoSides(sq) ==
    \A s, t \in 1..Len(sq) : s # t => LowerSet(sq[s]) \cap LowerSet(sq[t]) = {}

\* Some side holds both letters.
OnOneSide(sq, c1, c2) ==
    \E s \in 1..Len(sq) : c1 \in LowerSet(sq[s]) /\ c2 \in LowerSet(sq[s])

\* A character is a capital letter.
IsCapital(ch) == ch \in 65..90

\* find_shortest_solution has returned.
Returned == pc = "done"

\* find_shortest_solution has returned after running the search loop.
ReturnedFromSearch == pc = "done" /\ playable_words # <<>>

\* The loop ended without a recorded solution.
NothingRecorded == ReturnedFromSearch /\ search.min_solution = <<>>

\* The number of distinct square letters in a word.
Coverage(w, sq) == Cardinality(SetOf(w) \cap AllLetters(sq))

RECURSIVE Reach(_, _)
\* The <<last letter, letters covered>> pairs of the chains of exactly k
\* words of the set pws in which every word after the first starts with the
\* last letter of the word before it.
Reach(pws, k) ==
    IF k = 1 THEN {<<w[Len(w)], SetOf(w)>> : w \in pws}
    ELSE {<<pw[2][Len(pw[2])], pw[1][2] \cup SetOf(pw[2])>> :
             pw \in {q \in Reach(pws, k - 1) \X pws : q[2][1] = q[1][1]}}

\* The lengths, up to max_solution_length, of the covering chains.
CoverLens(pws, sq) ==
    {k \in 1..max_solution_length : \E p \in Reach(pws, k) : AllLetters(sq) \subseteq p[2]}

\* The least element of a non-empty set of numbers.
Least(S) == CHOOSE k \in S : \A m \in S : k <= m

\* No first-letter index entry is longer than the smaller branch limit, so
\* that no expansion drops a candidate.
NoCrowdedEntry ==
    \A ch \in DOMAIN first_letter_map : Len(first_letter_map[ch]) <= branch_limit_rest

\* The loop ended on an empty queue or on break, not on the iteration budget.
EndedWithinBudget == search.stopped \/ search.queue = <<>>

\* The sequences of at least two words the search holds or has returned.
ChainedSequences ==
    {search.queue[n].words : n \in 1..Len(search.queue)}
    \cup (IF Returned THEN {LowerAll(result)} ELSE {})

\* The side letter_sides gives a letter of the square.
SideOf(ch) == letter_sides(normalize_square(square), ch)

\* The positions of the dictionary entries with the given lowercase form.
EntriesFor(word_lower) ==
    {n \in 1..Len(dictionary.items) : Lower(dictionary.items[n]) = word_lower}

\* The rearrangements of a sequence: all of them for a short sequence, the
\* exchanges of two entries for a long one.
Rearrangements(items) ==
    LET n == Len(items)
    IN  IF n <= MaxDictLen + 1
        THEN {[m \in 1..n |-> items[p[m]]] :
                 p \in {q \in [1..n -> 1..n] : \A u, v \in 1..n : q[u] = q[v] => u = v}}
        ELSE {[m \in 1..n |-> IF m = u THEN items[v] ELSE IF m = v THEN items[u] ELSE items[m]] :
                 u \in 1..n, v \in 1..n}

\* No two different playable words have the same sort key.
DistinctSortKeys ==
    \A u, v \in SetOf(playable_words) : u # v => PlayableKey(u) # PlayableKey(v)

(***************************************************************************)
(* Properties                                                              *)
(***************************************************************************)

\* C1: on a square with no letter on two sides, is_valid_word returns true
\* exactly when the word is non-empty, every lowercased letter is on some
\* side and no two consecutive letters are on one side; the empty word is
\* rejected.
C1_IsValidWord ==
    (pc = "valid_returned" /\ NoLetterOnTwoSides(square)) =>
        (ret <=> /\ arg_word # <<>>
                 /\ \A n \in 1..Len(arg_word) : LowerChar(arg_word[n]) \in AllLetters(square)
                 /\ \A n \in 2..Len(arg_word) :
                        ~OnOneSide(square, LowerChar(arg_word[n-1]), LowerChar(arg_word[n])))

\* A word of three letters, one of them a capital, was accepted.
C1_Witness ==
    /\ pc = "valid_returned" /\ NoLetterOnTwoSides(square)
    /\ ret /\ Len(arg_word) >= 3
    /\ \E n \in 1..Len(arg_word) : IsCapital(arg_word[n])

\* C2 as stated: whenever a covering chain of at most 5 playable words
\* exists, the result covers the square with the least number of words.
C2_AlwaysShortest ==
    (ReturnedFromSearch /\ CoverLens(SetOf(playable_words), square) # {}) =>
        /\ AllLetters(square) \subseteq LettersOf(LowerAll(result))
        /\ Len(result) = Least(CoverLens(SetOf(playable_words), square))

\* C2 as amended: the same, provided no first-letter index entry holds more
\* than 15 words and the loop did not end on the iteration budget.
C2_ShortestWhenNotCut ==
    (/\ ReturnedFromSearch /\ NoCrowdedEntry /\ EndedWithinBudget
     /\ CoverLens(SetOf(playable_words), square) # {}) =>
        /\ AllLetters(square) \subseteq LettersOf(LowerAll(result))
        /\ Len(result) = Least(CoverLens(SetOf(playable_words), square))

\* A three-word solution was returned where no shorter chain covers.
C2_Witness ==
    /\ ReturnedFromSearch /\ NoCrowdedEntry /\ EndedWithinBudget
    /\ CoverLens(SetOf(playable_words), square) # {}
    /\ Least(CoverLens(SetOf(playable_words), square)) = 3
    /\ Len(result) = 3

C4_CoversAllLetters ==
    pc = "covers_returned" =>
        (ret <=> \A s \in 1..Len(square) : \A ch \in square[s] :
                     \E u \in arg_used : LowerChar(u) = LowerChar(ch))

\* Coverage was reported for used letters holding a letter outside the
\* square and a capital whose lowercase form is not among them.
C4_Witness ==
    /\ pc = "covers_returned" /\ ret
    /\ \E u \in arg_used : LowerChar(u) \notin AllLetters(square)
    /\ \E u \in arg_used : IsCapital(u) /\ LowerChar(u) \notin arg_used

\* C5: the result is the empty list when the dictionary is absent, empty,
\* not a list, or holds no word valid for the square.
C5_EmptyResult ==
    (/\ Returned
     /\ \/ dictionary.kind # "list"
        \/ dictionary.items = <<>>
        \/ \A n \in 1..Len(dictionary.items) :
               ~is_valid_word(dictionary.items[n], square)) =>
        result = <<>>

\* A non-empty list without a valid word was answered with the empty list.
C5_Witness ==
    /\ Returned /\ dictionary.kind = "list" /\ Len(dictionary.items) >= 2
    /\ \A n \in 1..Len(dictionary.items) :
           dictionary.items[n] # <<>> /\ ~is_valid_word(dictionary.items[n], square)
    /\ result = <<>>

\* C6: when the loop ends with nothing recorded and a playable word exists,
\* the result is one word, and no playable word has more distinct square
\* letters than it.
C6_FallbackMostLetters ==
    NothingRecorded =>
        /\ Len(result) = 1
        /\ Lower(result[1]) \in SetOf(playable_words)
        /\ \A w \in SetOf(playable_words) :
               Coverage(w, square) <= Coverage(Lower(result[1]), square)

\* The fallback chose between playable words of different coverage.
C6_Witness ==
    /\ NothingRecorded /\ Len(result) = 1
    /\ \E w \in SetOf(playable_words) :
           Coverage(w, square) < Coverage(Lower(result[1]), square)

\* C7: in the fallback, no playable word with the same number of distinct
\* square letters as the returned word is longer than it.
C7_FallbackLongest ==
    NothingRecorded =>
        \A w \in SetOf(playable_words) :
            Coverage(w, square) = Coverage(Lower(result[1]), square)
                => Len(w) <= Len(result[1])

\* C8: every word of the result equals a dictionary entry character for
\* character, and its lowercase form is the word selected: the word of
\* min_solution at its position, or a playable word in the fallback.
C8_OriginalCasing ==
    Returned =>
        /\ \A n \in 1..Len(result) :
               \E m \in 1..Len(dictionary.items) : dictionary.items[m] = result[n]
        /\ search.min_solution # <<>> => LowerAll(result) = search.min_solution
        /\ \A n \in 1..Len(result) : Lower(result[n]) \in SetOf(playable_words)

\* A solution of two or more words was returned with a capital in it.
C8_Witness ==
    /\ Returned /\ Len(result) >= 2
    /\ \E n \in 1..Len(result) : \E m \in 1..Len(result[n]) : IsCapital(result[n][m])

\* C9 as stated: the casing remembered and returned for a word is that of
\* the first dictionary entry with its lowercase form.
C9_FirstCasing ==
    /\ \A w \in DOMAIN original_case :
           \E n \in EntriesFor(w) :
               /\ original_case[w] = dictionary.items[n]
               /\ \A m \in EntriesFor(w) : n <= m
    /\ Returned =>
           \A r \in 1..Len(result) : \E n \in EntriesFor(Lower(result[r])) :
               /\ result[r] = dictionary.items[n]
               /\ \A m \in EntriesFor(Lower(result[r])) : n <= m

\* C9 as amended: the casing remembered and returned for a word is that of
\* the last dictionary entry with its lowercase form.
C9_LastCasing ==
    /\ \A w \in DOMAIN original_case :
           \E n \in EntriesFor(w) :
               /\ original_case[w] = dictionary.items[n]
               /\ \A m \in EntriesFor(w) : m <= n
    /\ Returned =>
           \A r \in 1..Len(result) : \E n \in EntriesFor(Lower(result[r])) :
               /\ result[r] = dictionary.items[n]
               /\ \A m \in EntriesFor(Lower(result[r])) : m <= n

\* A word was returned whose lowercase form has two entries of different
\* casing in the dictionary.
C9_Witness ==
    /\ Returned /\ result # <<>>
    /\ \E m, n \in EntriesFor(Lower(result[1])) :
           m < n /\ dictionary.items[m] # dictionary.items[n]

\* C10 as stated: every rearrangement of the dictionary gives the same
\* result up to letter casing.
C10_OrderIndependent ==
    (Returned /\ dictionary.kind = "list") =>
        \A items \in Rearrangements(dictionary.items) :
            LowerAll(find_shortest_solution(square, ListDict(items))) = LowerAll(result)

\* C10 as amended: every rearrangement of the dictionary gives the same
\* result up to letter casing when no two different playable words have the
\* same length and the same number of distinct letters.
C10_OrderIndependentDistinctKeys ==
    (Returned /\ dictionary.kind = "list" /\ DistinctSortKeys) =>
        \A items \in Rearrangements(dictionary.items) :
            LowerAll(find_shortest_solution(square, ListDict(items))) = LowerAll(result)

\* A two-word solution was returned for a dictionary of three different
\* playable words with different sort keys.
C10_Witness ==
    /\ Returned /\ dictionary.kind = "list" /\ DistinctSortKeys
    /\ Cardinality(SetOf(playable_words)) >= 3
    /\ Len(result) = 2

(***************************************************************************)
(* Properties of the search loop                                           *)
(***************************************************************************)

\* The same program with the guarantee that a call keeps running until it
\* returns.
SpecFair == Spec /\ WF_vars(Next)

\* A call has returned.
Terminated == pc \in {"done", "valid_returned", "covers_returned"}

\* A solution of one or two words is recorded.
ShortRecorded == search.min_solution # <<>> /\ Len(search.min_solution) <= 2

\* The step is one iteration of the search loop.
Dequeues == pc = "search" /\ search' # search

\* C11: once a covering sequence of one or two words is recorded, nothing
\* more is dequeued or expanded (the search locals stay as they are), and
\* that sequence is the result.
C11_StopsAtShortSolution ==
    /\ [](Returned /\ ShortRecorded => LowerAll(result) = search.min_solution)
    /\ [][ShortRecorded => search' = search]_vars

\* A two-word solution was returned while the queue still held entries.
C11_Witness ==
    /\ Returned /\ ShortRecorded /\ Len(result) = 2
    /\ search.queue # <<>>

\* C12: every call returns; the loop never counts more than max_iterations
\* dequeues, every dequeue is counted and is made below the budget.
C12_TerminatesWithinBudget ==
    /\ [](search.search_iterations <= max_iterations)
    /\ [][Dequeues => /\ search.search_iterations < max_iterations
                      /\ search'.search_iterations = search.search_iterations + 1]_vars
    /\ <>Terminated

\* A search of at least 40 dequeues has returned.
C12_Witness == Returned /\ search.search_iterations >= 40

\* C13: no sequence in the queue, no recorded solution and no result has
\* more than max_solution_length words.
C13_AtMostFiveWords ==
    /\ \A n \in 1..Len(search.queue) : Len(search.queue[n].words) <= max_solution_length
    /\ Len(search.min_solution) <= max_solution_length
    /\ Len(result) <= max_solution_length

\* The search ended after a sequence of max_solution_length words was
\* dequeued and left unexpanded.
C13_Witness ==
    /\ Returned /\ search.queue = <<>>
    /\ \E v \in search.visited : Len(v[1]) = max_solution_length

\* C14: in every queued sequence and in the lowercased result, each word
\* after the first starts with the last letter of the word before it.
C14_NextStartsWithLastLetter ==
    \A ws \in ChainedSequences : \A n \in 1..(Len(ws) - 1) :
        ws[n+1][1] = ws[n][Len(ws[n])]

\* The queue holds a sequence of three or more words.
C14_Witness ==
    \E n \in 1..Len(search.queue) : Len(search.queue[n].words) >= 3

\* C15: a recorded solution is never replaced and every sequence dequeued
\* after it is skipped (neither marked visited nor expanded); the first
\* covering sequence dequeued is the one recorded, and it is the result.
C15_FirstSolutionKept ==
    /\ [](Returned /\ search.min_solution # <<>> => LowerAll(result) = search.min_solution)
    /\ [][search.min_solution # <<>> =>
             /\ search'.min_solution = search.min_solution
             /\ search'.visited = search.visited
             /\ (search' # search => search'.queue = Tail(search.queue))]_vars
    /\ [][(/\ Dequeues /\ search.min_solution = <<>>
           /\ AllLetters(square) \subseteq Head(search.queue).letters) =>
             search'.min_solution = Head(search.queue).words]_vars

\* A second covering sequence is at the head of the queue behind a recorded
\* solution.
C15_Witness ==
    /\ pc = "search" /\ search.min_solution # <<>> /\ search.queue # <<>>
    /\ AllLetters(square) \subseteq Head(search.queue).letters
    /\ Head(search.queue).words # search.min_solution

\* u ranks strictly better than v after the letters in used: more new
\* letters, or as many and shorter.
RanksBetter(u, v, used) ==
    LET nu == Cardinality(SetOf(u) \ used)
        nv == Cardinality(SetOf(v) \ used)
    IN  nu > nv \/ (nu = nv /\ Len(u) < Len(v))

\* How often w occurs in a sequence.
Count(ws, w) == Cardinality({n \in 1..Len(ws) : ws[n] = w})

\* C16: an expansion leaves the rest of the queue in place and appends, for
\* K = 25 after one word and 15 otherwise, min(K, candidates) successors:
\* each the sequence plus one playable word starting with its last letter,
\* with the coverage updated, in rank order, and no candidate left out
\* ranks strictly better than one appended.
C16_TopCandidates ==
    [][(Dequeues /\ IterationKind(search, square) = "expand") =>
        LET cur == Head(search.queue)
            last_word == cur.words[Len(cur.words)]
            candidates == SelectSeq(playable_words,
                                    LAMBDA w : w[1] = last_word[Len(last_word)])
            K == IF Len(cur.words) = 1 THEN 25 ELSE 15
            app == SubSeq(search'.queue, Len(search.queue), Len(search'.queue))
            added == [n \in 1..Len(app) |-> app[n].words[Len(app[n].words)]]
        IN  /\ SubSeq(search'.queue, 1, Len(search.queue) - 1) = Tail(search.queue)
            /\ Len(app) = (IF Len(candidates) < K THEN Len(candidates) ELSE K)
            /\ \A n \in 1..Len(app) :
                   /\ app[n].words = Append(cur.words, added[n])
                   /\ app[n].letters = cur.letters \cup SetOf(added[n])
            /\ \A w \in SetOf(added) : Count(added, w) <= Count(candidates, w)
            /\ \A m, n \in 1..Len(added) :
                   m < n => ~RanksBetter(added[n], added[m], cur.letters)
            /\ \A w \in SetOf(candidates) :
                   Count(added, w) < Count(candidates, w) =>
                       \A n \in 1..Len(added) : ~RanksBetter(w, added[n], cur.letters)
    ]_vars

\* The queue holds a three-word sequence whose last word was taken from a
\* first-letter index entry of more than 25 words.
C16_Witness ==
    /\ pc = "search"
    /\ \E n \in 1..Len(search.queue) :
           /\ Len(search.queue[n].words) = 3
           /\ Len(first_letter_map[search.queue[n].words[3][1]]) > 25

\* C17: the playable word list holds no word twice, and so does no
\* first-letter index entry and no pair of seeds.
C17_PlayableWordsUnique ==
    /\ \A m, n \in 1..Len(playable_words) :
           m # n => playable_words[m] # playable_words[n]
    /\ \A ch \in DOMAIN first_letter_map : \A m, n \in 1..Len(first_letter_map[ch]) :
           m # n => first_letter_map[ch][m] # first_letter_map[ch][n]

(***************************************************************************)
(* Properties of the service                                               *)
(***************************************************************************)

\* The executions of fetch_puzzle_data in progress.
FetchesInProgress ==
    Cardinality({r \in Requests : request[r] = "fetching"})
        + (IF job = "fetching" THEN 1 ELSE 0)

\* C18: across requests and the scheduled job, at most one execution of
\* fetch_puzzle_data is in progress at any time.
C18_OneFetchAtATime == FetchesInProgress <= 1

====
